---------------------------- MODULE Spec2Model ----------------------------
(***************************************************************************)
(* Model of the nwx scanner-creation workflow (src/cmd/scanner.go) and of  *)
(* its two callers: the `scanner create` command and the interactive       *)
(* menu's runScannerCreation (src/unnamed/part_000).                       *)
(*                                                                         *)
(* Text values (Name, DisplayName, Description, Version, OutputDir) are    *)
(* sequences of one-character strings, so that strings.Contains,           *)
(* strings.ReplaceAll and strings.Title are computed character by          *)
(* character.  Enumerated values (Icon, Language, scan types, auth         *)
(* methods) are TLA+ strings.  "U+0130" and "U+0307" stand for the single   *)
(* characters LATIN CAPITAL LETTER I WITH DOT ABOVE and COMBINING DOT      *)
(* ABOVE, "U+0131" for LATIN SMALL LETTER DOTLESS I.                       *)
(***************************************************************************)
EXTENDS Integers, Sequences, FiniteSets, TLC

(***************************************************************************)
(* Bounds of the model.                                                    *)
(***************************************************************************)
\* how many times the name prompt may be issued in one run
MaxNameTries == 2

(***************************************************************************)
(* String helpers (package strings).                                       *)
(***************************************************************************)
Contains(str, ch) == \E i \in 1..Len(str) : str[i] = ch

ReplaceAll(str, old, new) ==
    [i \in 1..Len(str) |-> IF str[i] = old THEN new ELSE str[i]]

ToUpperChar(c) ==
    CASE c = "a" -> "A"
      [] c = "b" -> "B"
      [] c = "d" -> "D"
      [] c = "o" -> "O"
      [] c = "s" -> "S"
      [] c = "x" -> "X"
      [] OTHER   -> c

\* strings.isSeparator on ASCII: letters, digits and '_' do not separate words
IsSeparator(c) ==
    c \notin {"a", "b", "d", "o", "s", "x", "A", "B", "D", "O", "S", "X",
              "0", "1", "2", "3", "_", "U+0130"}

\* strings.Title: upper-case the first letter of every word
Title(str) ==
    [i \in 1..Len(str) |->
        IF i = 1 \/ IsSeparator(str[i - 1]) THEN ToUpperChar(str[i]) ELSE str[i]]

(***************************************************************************)
(* survey prompts.                                                         *)
(***************************************************************************)
\* survey.Input: an empty line yields the prompt's Default
InputAnswer(typed, default) == IF typed = <<>> THEN default ELSE typed

RECURSIVE Pick(_, _, _)
Pick(opts, S, i) ==
    IF i > Len(opts) THEN <<>>
    ELSE (IF i \in S THEN <<opts[i]>> ELSE <<>>) \o Pick(opts, S, i + 1)

\* survey.MultiSelect: the ticked options, in option order
MultiSelectAnswers(opts) == {Pick(opts, S, 1) : S \in SUBSET (1..Len(opts))}

\* survey.Select: one of the options
SelectAnswers(opts) == {opts[i] : i \in 1..Len(opts)}

\* the place of an option in a list of options, 1 when it is not in it
IndexOf(opts, opt) ==
    IF \E i \in 1..Len(opts) : opts[i] = opt
    THEN CHOOSE i \in 1..Len(opts) : opts[i] = opt
    ELSE 1

\* survey.Select: the cursor starts on Default, every Down moves it one
\* option further (around the end), Enter takes the option under it
SelectAnswer(opts, default, downs) ==
    opts[((IndexOf(opts, default) - 1 + downs) % Len(opts)) + 1]

\* survey.MultiSelect: the options of Default start ticked, Space flips
\* the tick of an option, Enter takes the ticked options in option order
MultiSelectAnswer(opts, default, flipped) ==
    Pick(opts, {i \in 1..Len(opts) :
                   (\E j \in 1..Len(default) : default[j] = opts[i]) # (i \in flipped)}, 1)

\* survey.Confirm: an empty line takes Default, "y" is yes, "n" is no
ConfirmAnswer(typed, default) == IF typed = "" THEN default ELSE typed = "y"

\* a prompt fails with io.EOF (closed input) or terminal.InterruptErr (ctrl+c)
PromptErrors == {"EOF", "interrupt"}

iconOptions == <<"folder", "database", "cloud", "server", "lock", "file",
                 "network", "other">>
languageOptions == <<"python", "javascript", "go", "java", "c#">>
scanTypeOptions == <<"access", "sensitive_data">>
authOptions == <<"Username/Password", "API Key", "OAuth2", "Certificate",
                 "Service Account", "Windows Authentication", "Custom">>

DefaultVersion == <<"1", ".", "0", ".", "0">>

\* what the user types at the text prompts (an empty line takes the default)
NameInputs == { <<>>, <<"a", "b">>, <<"a", "-", "b">>, <<"s", "-", "3">> }
DisplayNameInputs == { <<>>, <<"X">> }
DescriptionInputs == { <<"d">> }
VersionInputs == { <<>>, <<"2", ".", "1">> }
OutputDirInputs == { <<>>, <<"o">> }

\* how often the user presses Down at the select prompts before Enter
\* (icon: folder or lock; language: python or go)
IconInputs == { 0, 4 }
LanguageInputs == { 0, 2 }

\* the options whose tick the user flips at the multi-select prompts, by
\* their place in the list
ScanTypeInputs == SUBSET {1, 2}
AuthMethodInputs == { {}, {1, 2, 3} }

\* what the user types at the yes/no prompts
ConfirmInputs == { "", "n" }

\* the Default of the prompts that have one
iconDefault == "folder"
languageDefault == "python"
\* a scan-type prompt that starts with both types ticked
scanTypeDefault_both == <<"access", "sensitive_data">>

scanTypeDefault == <<"access">>
authDefault == <<"Username/Password">>
generateDefault == TRUE
confirmDefault == TRUE

(***************************************************************************)
(* The remote service and the API client (src/unnamed/part_001).           *)
(***************************************************************************)
\* TypeName lists the service may hold
RegisteredInputs == { << <<"a", "-", "b">> >> }

PageSize == 100

Min(a, b) == IF a < b THEN a ELSE b

\* the page the service returns for page=1&pageSize=100
FirstPage(reg) == SubSeq(reg, 1, Min(Len(reg), PageSize))

NilResponse == [nil |-> TRUE, Data |-> <<>>]

EndpointResults == {"error", "empty", "configured"}
TestConnectionResults == {"ok", "transport", "status"}
GetSourceTypesResults == {"ok", "transport", "status", "parse"}

(***************************************************************************)
(* ScannerCreationData and the wizard's step sequence.                     *)
(***************************************************************************)
EmptyScanner ==
    [Name |-> <<>>, DisplayName |-> <<>>, Description |-> <<>>,
     Version |-> <<>>, Icon |-> "", Language |-> "",
     SupportedScanTypes |-> <<>>, AuthMethods |-> <<>>,
     GenerateFiles |-> FALSE, OutputDir |-> <<>>]

StepOrder == <<"BasicInfo", "Language", "ScanTypes", "AuthMethods",
               "FileGeneration", "SummaryConfirm">>

\* the step function each prompt belongs to
StepOf(prompt) ==
    CASE prompt \in {"name", "displayName", "description", "version", "icon"}
                                  -> "BasicInfo"
      [] prompt = "language"      -> "Language"
      [] prompt = "scanTypes"     -> "ScanTypes"
      [] prompt = "authMethods"   -> "AuthMethods"
      [] prompt \in {"generateFiles", "outputDir"} -> "FileGeneration"
      [] prompt = "confirm"       -> "SummaryConfirm"

\* the names collectBasicInfo checks against
ExistingNames(existing) ==
    IF existing.nil THEN {}
    ELSE {existing.Data[i] : i \in 1..Len(existing.Data)}

\* the validator of the name prompt: "ok" or the validation error
ValidateName(str, existingNames) ==
    IF str # <<>>
    THEN IF str \in existingNames THEN "exists"
         ELSE IF ~Contains(str, "-") /\ Len(str) > 0 THEN "kebab"
         ELSE "ok"
    ELSE "ok"

(***************************************************************************)
(* Errors.  msg is what Error() starts with; file is the artifact a write  *)
(* error names.                                                            *)
(***************************************************************************)
NoFile == [prefix |-> <<>>, fixed |-> ""]
NoCause == ""
NilErr == [msg |-> "nil", file |-> NoFile, cause |-> NoCause]
Err(m) == [msg |-> m, file |-> NoFile, cause |-> NoCause]
\* fmt.Errorf("...: %w", cause)
Wrap(m, cause) == [msg |-> m, file |-> NoFile, cause |-> cause]
WriteErr(f, cause) == [msg |-> "failed to write", file |-> f, cause |-> cause]

\* what the operating system may answer to MkdirAll and WriteFile whatever
\* the state of the disk
IOFaults == {"permission denied"}

Callers == {"cmd", "menu"}

(***************************************************************************)
(* The menus (src/unnamed/part_000).  A menu item is its Title; its Action *)
(* is named by the Title.                                                  *)
(***************************************************************************)
getMainMenuItems == <<"Access Analyzer", "Configuration", "Help", "Exit">>
getAccessAnalyzerMenuItems == <<"Scanner Management", "Back to Main Menu">>
getScannerMenuItems == <<"Create Scanner", "Back to Access Analyzer">>

\* the item lists runMenu is called with
MenuInputs == {getMainMenuItems, getAccessAnalyzerMenuItems,
               getScannerMenuItems}

\* done starts as the zero value, false
initialModel(items) ==
    [choices |-> items, cursor |-> 0, mode |-> "menu", done |-> FALSE]

\* no menu is on the screen
NoMenuRun == [items |-> <<>>, at |-> "none", key |-> "", err |-> "nil",
              executed |-> <<>>, msgs |-> 0]
NoSimpleMenu == [at |-> "none", closed |-> FALSE, last |-> [kind |-> "none"],
                 out |-> <<>>, executed |-> <<>>, reads |-> 0]

VARIABLES
    caller,         \* who runs the workflow: scannerCreateCmd or runScannerCreation
    pc,             \* position of the workflow
    registered,     \* TypeNames held by the remote service
    connErr,        \* outcome of TestConnection
    lookupErr,      \* outcome of GetSourceTypes
    response,       \* the *SourceTypeListResponse handed to the wizard
    scanner,        \* the ScannerCreationData record
    assigned,       \* fields of the record a prompt has written
    asked,          \* prompts issued, in order
    steps,          \* wizard steps started, in order
    validationErr,  \* validation error currently shown at the name prompt
    confirmed,      \* the answer stored by the confirmation prompt
    err,            \* error returned by runInteractiveScannerCreation
    out,            \* messages printed by the caller and the writer
    dirs,           \* directories created
    files,          \* the artifact list built by generateScannerFiles
    rendered,       \* fields that were set when the artifacts were rendered
    written,        \* artifacts written to disk, in order
    exitCode,       \* exit code of the process, -1 while it runs
    defaulted,      \* prompts the user answered with Enter alone
    model,          \* the InteractiveModel of the menu program
    menuRun,        \* the run of runMenu: its items, its position, the key
                    \* handled last and the item actions it has executed
    simple,         \* the run of runSimpleMenu: its position, what it has
                    \* printed and the item actions it has executed
    disk,           \* content of every file on disk, by cleaned path
    runs            \* how many times the writer has been started

vars == <<caller, pc, registered, connErr, lookupErr, response, scanner,
          assigned, asked, steps, validationErr, confirmed, err, out, dirs,
          files, rendered, written, exitCode, defaulted, model, menuRun,
          simple, disk, runs>>

Init ==
    /\ caller \in Callers
    /\ registered \in RegisteredInputs
    /\ pc = "getAPIClient"
    /\ connErr = "none"
    /\ lookupErr = "none"
    /\ response = NilResponse
    /\ scanner = EmptyScanner
    /\ assigned = {}
    /\ asked = <<>>
    /\ steps = <<>>
    /\ validationErr = "none"
    /\ confirmed = FALSE
    /\ err = NilErr
    /\ out = <<>>
    /\ dirs = {}
    /\ files = <<>>
    /\ rendered = {}
    /\ written = <<>>
    /\ exitCode = -1
    /\ defaulted = {}
    /\ model = initialModel(getMainMenuItems)
    /\ menuRun = NoMenuRun
    /\ simple = NoSimpleMenu
    /\ disk = <<>>
    /\ runs = 1

(***************************************************************************)
(* The callers: scannerCreateCmd.Run and runScannerCreation.               *)
(***************************************************************************)
\* exit code of the process: Execute exits 1 only when the command tree
\* returns an error; a cobra Run function has no error to return
ProcessExitCode(runReturnedError) == IF runReturnedError THEN 1 ELSE 0

\* the caller prints msgs and returns: the command's process ends, the menu
\* waits for a key and shows the scanner menu again
CallerReturns(msgs) ==
    /\ out' = out \o msgs
    /\ pc' = IF caller = "cmd" THEN "exited" ELSE "scannerMenu"
    /\ exitCode' = IF caller = "cmd" THEN ProcessExitCode(FALSE) ELSE exitCode

\* what scannerCreateCmd prints for a wizard error
CmdResultMessage(e) == IF e.msg = "EOF" THEN "Cancelled" ELSE "Failed"

\* what runScannerCreation prints for a wizard error
MenuResultMessage(e) == IF e.msg = "EOF" THEN "Cancelled" ELSE "Failed"

GetAPIClient ==
    /\ pc = "getAPIClient"
    /\ \E r \in EndpointResults :
          IF r = "configured"
          THEN /\ pc' = "testConnection"
               /\ UNCHANGED <<out, exitCode>>
          ELSE CallerReturns(<<"Error">>)
    /\ UNCHANGED <<model, menuRun, simple, defaulted, disk, runs, confirmed, caller, registered, connErr, lookupErr, response, scanner,
                   assigned, asked, steps, validationErr, err, dirs, files,
                   rendered, written>>

TestConnection ==
    /\ pc = "testConnection"
    /\ \E r \in TestConnectionResults :
          /\ connErr' = r
          /\ IF r = "ok"
             THEN /\ pc' = "getSourceTypes"
                  /\ UNCHANGED <<out, exitCode>>
             ELSE CallerReturns(<<"ConnectionFailed">>)
    /\ UNCHANGED <<model, menuRun, simple, defaulted, disk, runs, confirmed, caller, registered, lookupErr, response, scanner,
                   assigned, asked, steps, validationErr, err, dirs, files,
                   rendered, written>>

\* a lookup failure treated like a connection failure: print and return
GetSourceTypes_fatal ==
    /\ pc = "getSourceTypes"
    /\ \E r \in GetSourceTypesResults :
          /\ lookupErr' = r
          /\ IF r = "ok"
             THEN /\ response' = [nil |-> FALSE, Data |-> FirstPage(registered)]
                  /\ out' = Append(out, "Found")
                  /\ scanner' = EmptyScanner
                  /\ steps' = Append(steps, StepOrder[1])
                  /\ pc' = "name"
                  /\ UNCHANGED exitCode
             ELSE /\ CallerReturns(<<"Warning">>)
                  /\ UNCHANGED <<response, scanner, steps>>
    /\ UNCHANGED <<model, menuRun, simple, defaulted, disk, runs, confirmed, caller, registered, connErr, assigned, asked,
                   validationErr, err, dirs, files, rendered, written>>

\* GetSourceTypes, then the call of runInteractiveScannerCreation, which
\* makes the empty record and enters collectBasicInfo
GetSourceTypes ==
    /\ pc = "getSourceTypes"
    /\ \E r \in GetSourceTypesResults :
          /\ lookupErr' = r
          /\ IF r = "ok"
             THEN /\ response' = [nil |-> FALSE, Data |-> FirstPage(registered)]
                  /\ out' = Append(out, "Found")
             ELSE /\ response' = NilResponse
                  /\ out' = Append(out, "Warning")
    /\ scanner' = EmptyScanner
    /\ steps' = Append(steps, StepOrder[1])
    /\ pc' = "name"
    /\ UNCHANGED <<model, menuRun, simple, defaulted, disk, runs, confirmed, caller, registered, connErr, assigned, asked,
                   validationErr, err, dirs, files, rendered, written,
                   exitCode>>

\* the caller's handling of the wizard's result
HandleResult ==
    /\ pc = "returned"
    /\ IF err = NilErr
       THEN CallerReturns(<<>>)
       ELSE CallerReturns(<< IF caller = "cmd" THEN CmdResultMessage(err)
                                               ELSE MenuResultMessage(err) >>)
    /\ UNCHANGED <<model, menuRun, simple, defaulted, disk, runs, confirmed, caller, registered, connErr, lookupErr, response, scanner,
                   assigned, asked, steps, validationErr, err, dirs, files,
                   rendered, written>>

(***************************************************************************)
(* The wizard: runInteractiveScannerCreation and its step functions.       *)
(***************************************************************************)
\* a prompt error that is recorded but not returned: the prompt is retried
PromptFails_retries(prompt, e) ==
    /\ asked' = Append(asked, prompt)
    /\ err' = Err(e)
    /\ UNCHANGED <<pc, scanner, assigned, steps, validationErr, defaulted>>

\* a prompt fails: its step returns the error and the wizard returns it
PromptFails(prompt, e) ==
    /\ asked' = Append(asked, prompt)
    /\ err' = Err(e)
    /\ pc' = "returned"
    /\ UNCHANGED <<scanner, assigned, steps, validationErr, defaulted>>

\* a prompt stores its answer and the next prompt follows; when the next
\* prompt belongs to another step, the step returns nil and the wizard
\* calls the next step function
PromptAnswered(prompt, field, value, next) ==
    /\ asked' = Append(asked, prompt)
    /\ scanner' = [scanner EXCEPT ![field] = value]
    /\ assigned' = assigned \cup {field}
    /\ pc' = next
    /\ steps' = IF StepOf(next) # StepOf(prompt)
                THEN Append(steps, StepOf(next)) ELSE steps
    /\ UNCHANGED <<err>>

\* the user answered the prompt with Enter alone, or typed or moved first
EnterAlone(prompt, alone) ==
    defaulted' = IF alone THEN defaulted \cup {prompt} ELSE defaulted

Occurrences(seq, x) == Cardinality({i \in 1..Len(seq) : seq[i] = x})

AskName ==
    /\ pc = "name"
    /\ \/ \E str \in NameInputs :
             LET v == ValidateName(str, ExistingNames(response)) IN
             IF v = "ok"
             THEN /\ PromptAnswered("name", "Name", str, "displayName")
                  /\ validationErr' = "none"
             ELSE /\ Occurrences(asked, "name") + 1 < MaxNameTries
                  /\ asked' = Append(asked, "name")
                  /\ validationErr' = v
                  /\ UNCHANGED <<scanner, assigned, steps, pc, err>>
       \/ \E e \in PromptErrors : PromptFails("name", e)
    /\ UNCHANGED <<model, menuRun, simple, defaulted, disk, runs, confirmed, caller, registered, connErr, lookupErr, response, out,
                   dirs, files, rendered, written, exitCode>>

AskDisplayName ==
    /\ pc = "displayName"
    /\ \/ \E typed \in DisplayNameInputs :
             /\ PromptAnswered("displayName", "DisplayName",
                    InputAnswer(typed, Title(ReplaceAll(scanner.Name, "-", " "))),
                    "description")
             /\ EnterAlone("displayName", typed = <<>>)
       \/ \E e \in PromptErrors : PromptFails("displayName", e)
    /\ UNCHANGED <<model, menuRun, simple, disk, runs, confirmed, caller, registered, connErr, lookupErr, response, out,
                   validationErr, dirs, files, rendered, written, exitCode>>

AskDescription ==
    /\ pc = "description"
    /\ \/ \E typed \in DescriptionInputs :
             /\ PromptAnswered("description", "Description",
                               InputAnswer(typed, <<>>), "version")
             /\ EnterAlone("description", typed = <<>>)
       \/ \E e \in PromptErrors : PromptFails("description", e)
    /\ UNCHANGED <<model, menuRun, simple, disk, runs, confirmed, caller, registered, connErr, lookupErr, response, out,
                   validationErr, dirs, files, rendered, written, exitCode>>

AskVersion ==
    /\ pc = "version"
    /\ \/ \E typed \in VersionInputs :
             /\ PromptAnswered("version", "Version",
                               InputAnswer(typed, DefaultVersion), "icon")
             /\ EnterAlone("version", typed = <<>>)
       \/ \E e \in PromptErrors : PromptFails("version", e)
    /\ UNCHANGED <<model, menuRun, simple, disk, runs, confirmed, caller, registered, connErr, lookupErr, response, out,
                   validationErr, dirs, files, rendered, written, exitCode>>

AskIcon ==
    /\ pc = "icon"
    /\ \/ \E downs \in IconInputs :
             /\ PromptAnswered("icon", "Icon",
                               SelectAnswer(iconOptions, iconDefault, downs),
                               "language")
             /\ EnterAlone("icon", downs = 0)
       \/ \E e \in PromptErrors : PromptFails("icon", e)
    /\ UNCHANGED <<model, menuRun, simple, disk, runs, confirmed, caller, registered, connErr, lookupErr, response, out,
                   validationErr, dirs, files, rendered, written, exitCode>>

\* collectLanguage handing over to step 4, so that step 3 never runs
collectLanguage_skipsScanTypes ==
    /\ pc = "language"
    /\ \/ \E downs \in LanguageInputs :
             /\ PromptAnswered("language", "Language",
                               SelectAnswer(languageOptions, languageDefault, downs),
                               "authMethods")
             /\ EnterAlone("language", downs = 0)
       \/ \E e \in PromptErrors : PromptFails("language", e)
    /\ UNCHANGED <<model, menuRun, simple, disk, runs, confirmed, caller, registered, connErr, lookupErr, response, out,
                   validationErr, dirs, files, rendered, written, exitCode>>

collectLanguage ==
    /\ pc = "language"
    /\ \/ \E downs \in LanguageInputs :
             /\ PromptAnswered("language", "Language",
                               SelectAnswer(languageOptions, languageDefault, downs),
                               "scanTypes")
             /\ EnterAlone("language", downs = 0)
       \/ \E e \in PromptErrors : PromptFails("language", e)
    /\ UNCHANGED <<model, menuRun, simple, disk, runs, confirmed, caller, registered, connErr, lookupErr, response, out,
                   validationErr, dirs, files, rendered, written, exitCode>>

collectScanTypes ==
    /\ pc = "scanTypes"
    /\ \/ \E flipped \in ScanTypeInputs :
             /\ PromptAnswered("scanTypes", "SupportedScanTypes",
                    MultiSelectAnswer(scanTypeOptions, scanTypeDefault, flipped),
                    "authMethods")
             /\ EnterAlone("scanTypes", flipped = {})
       \/ \E e \in PromptErrors : PromptFails("scanTypes", e)
    /\ UNCHANGED <<model, menuRun, simple, disk, runs, confirmed, caller, registered, connErr, lookupErr, response, out,
                   validationErr, dirs, files, rendered, written, exitCode>>

collectAuthMethods ==
    /\ pc = "authMethods"
    /\ \/ \E flipped \in AuthMethodInputs :
             /\ PromptAnswered("authMethods", "AuthMethods",
                    MultiSelectAnswer(authOptions, authDefault, flipped),
                    "generateFiles")
             /\ EnterAlone("authMethods", flipped = {})
       \/ \E e \in PromptErrors : PromptFails("authMethods", e)
    /\ UNCHANGED <<model, menuRun, simple, disk, runs, confirmed, caller, registered, connErr, lookupErr, response, out,
                   validationErr, dirs, files, rendered, written, exitCode>>

\* files generated as soon as GenerateFiles is answered yes
AskGenerateFiles_generatesAtOnce ==
    /\ pc = "generateFiles"
    /\ \/ \E typed \in ConfirmInputs :
             LET a == ConfirmAnswer(typed, generateDefault) IN
             /\ EnterAlone("generateFiles", typed = "")
             /\ asked' = Append(asked, "generateFiles")
             /\ scanner' = [scanner EXCEPT !.GenerateFiles = a]
             /\ assigned' = assigned \cup {"GenerateFiles"}
             /\ pc' = IF a THEN "mkdirOutput" ELSE "confirm"
             /\ steps' = IF a THEN steps ELSE Append(steps, "SummaryConfirm")
             /\ UNCHANGED err
       \/ \E e \in PromptErrors : PromptFails("generateFiles", e)
    /\ UNCHANGED <<model, menuRun, simple, disk, runs, confirmed, caller, registered, connErr, lookupErr, response, out,
                   validationErr, dirs, files, rendered, written, exitCode>>

\* the prompt that follows the GenerateFiles answer
AfterGenerateFiles(generate) == IF generate THEN "outputDir" ELSE "confirm"

AskGenerateFiles ==
    /\ pc = "generateFiles"
    /\ \/ \E typed \in ConfirmInputs :
             LET a == ConfirmAnswer(typed, generateDefault) IN
             /\ PromptAnswered("generateFiles", "GenerateFiles", a,
                               AfterGenerateFiles(a))
             /\ EnterAlone("generateFiles", typed = "")
       \/ \E e \in PromptErrors : PromptFails("generateFiles", e)
    /\ UNCHANGED <<model, menuRun, simple, disk, runs, confirmed, caller, registered, connErr, lookupErr, response, out,
                   validationErr, dirs, files, rendered, written, exitCode>>

AskOutputDir ==
    /\ pc = "outputDir"
    /\ \/ \E typed \in OutputDirInputs :
             /\ PromptAnswered("outputDir", "OutputDir",
                               InputAnswer(typed, <<".", "/">> \o scanner.Name),
                               "confirm")
             /\ EnterAlone("outputDir", typed = <<>>)
       \/ \E e \in PromptErrors : PromptFails("outputDir", e)
    /\ UNCHANGED <<model, menuRun, simple, disk, runs, confirmed, caller, registered, connErr, lookupErr, response, out,
                   validationErr, dirs, files, rendered, written, exitCode>>

\* step 7 run whatever GenerateFiles says
AfterConfirm_always(generate) == "mkdirOutput"

\* where the wizard goes after a "yes": step 7 or the end
AfterConfirm(generate) == IF generate THEN "mkdirOutput" ELSE "returned"

\* a declined confirmation that sets the error but still goes on to step 7
showSummaryAndConfirm_noReturn ==
    /\ pc = "confirm"
    /\ asked' = Append(asked, "confirm")
    /\ \/ \E typed \in ConfirmInputs :
             LET answer == ConfirmAnswer(typed, confirmDefault) IN
             /\ EnterAlone("confirm", typed = "")
             /\ confirmed' = answer
             /\ err' = IF answer THEN err ELSE Err("scanner creation cancelled")
             /\ pc' = AfterConfirm(scanner.GenerateFiles)
             /\ out' = IF scanner.GenerateFiles THEN out
                       ELSE Append(out, "Completed")
       \/ \E e \in PromptErrors :
             /\ err' = Err(e)
             /\ pc' = "returned"
             /\ UNCHANGED <<out, confirmed, defaulted>>
    /\ UNCHANGED <<model, menuRun, simple, disk, runs, caller, registered, connErr, lookupErr, response, scanner,
                   assigned, steps, validationErr, dirs, files, rendered,
                   written, exitCode>>

showSummaryAndConfirm ==
    /\ pc = "confirm"
    /\ asked' = Append(asked, "confirm")
    /\ \/ \E typed \in ConfirmInputs :
             LET answer == ConfirmAnswer(typed, confirmDefault) IN
             /\ EnterAlone("confirm", typed = "")
             /\ confirmed' = answer
             /\ IF ~answer
                THEN /\ err' = Err("scanner creation cancelled")
                     /\ pc' = "returned"
                     /\ UNCHANGED out
                ELSE /\ pc' = AfterConfirm(scanner.GenerateFiles)
                     /\ out' = IF scanner.GenerateFiles THEN out
                               ELSE Append(out, "Completed")
                     /\ UNCHANGED err
       \/ \E e \in PromptErrors :
             /\ err' = Err(e)
             /\ pc' = "returned"
             /\ UNCHANGED <<out, confirmed, defaulted>>
    /\ UNCHANGED <<model, menuRun, simple, disk, runs, caller, registered, connErr, lookupErr, response, scanner,
                   assigned, steps, validationErr, dirs, files, rendered,
                   written, exitCode>>

(***************************************************************************)
(* The renderers.  A JSON document is a function from its keys to its      *)
(* values; a fmt.Sprintf text is the template it fills and the arguments   *)
(* it substitutes, in order.                                               *)
(***************************************************************************)
ToUpper(str) == [i \in 1..Len(str) |-> ToUpperChar(str[i])]

RECURSIVE SplitFrom(_, _, _, _)
SplitFrom(str, sep, i, word) ==
    IF i > Len(str) THEN <<word>>
    ELSE IF str[i] = sep
         THEN <<word>> \o SplitFrom(str, sep, i + 1, <<>>)
         ELSE SplitFrom(str, sep, i + 1, Append(word, str[i]))

\* strings.Split on a one-character separator
Split(str, sep) == SplitFrom(str, sep, 1, <<>>)

RECURSIVE TitleWords(_, _)
TitleWords(words, i) ==
    IF i > Len(words) THEN <<>>
    ELSE (IF Len(words[i]) > 0 THEN Title(words[i]) ELSE <<>>)
         \o TitleWords(words, i + 1)

toPascalCase(str) == TitleWords(Split(str, "-"), 1)

contains(slice, item) == \E i \in 1..Len(slice) : slice[i] = item

\* an output schema that describes both tables whatever was selected
generateMinimalOutputSchema_bothTables(s) ==
    ("access" :> <<"scan_id", "resource_id", "scan_timestamp">>)
    @@ ("sensitiveData" :> <<"scan_id", "match_id", "scan_timestamp">>)

\* the "name" column of every entry of a "columns" list
generateMinimalOutputSchema(s) ==
    LET schema == <<>>
        withAccess ==
            IF contains(s.SupportedScanTypes, "access")
            THEN ("access" :> <<"scan_id", "resource_id", "scan_timestamp">>)
                 @@ schema
            ELSE schema
    IN  IF contains(s.SupportedScanTypes, "sensitive_data")
        THEN ("sensitiveData" :> <<"scan_id", "match_id", "scan_timestamp">>)
             @@ withAccess
        ELSE withAccess

\* the "key" of every entry of an "items" list
generateScannerSpecification(s) ==
    LET spec == ("name" :> ToUpper(ReplaceAll(s.Name, "-", "_")))
                @@ ("version" :> s.Version)
                @@ ("connectionConfig" :> <<"host">>)
                @@ ("outputSchema" :> generateMinimalOutputSchema(s))
        withAccess ==
            IF contains(s.SupportedScanTypes, "access")
            THEN ("accessScanConfig" :> <<"scanDepth">>) @@ spec
            ELSE spec
    IN  IF contains(s.SupportedScanTypes, "sensitive_data")
        THEN ("sensitiveDataScanConfig" :> <<"maxFileSize">>) @@ withAccess
        ELSE withAccess

\* the Dockerfile text is chosen by Language; any other value gets python's
generateDockerfile(s) ==
    [template |-> "Dockerfile",
     branch   |-> IF s.Language \in {"python", "javascript", "go", "java", "c#"}
                  THEN s.Language ELSE "default"]

\* the file names the README text puts between backquotes
ReadmeFiles ==
    {"scannerSpecification.json", "scanner.py", "Dockerfile",
     "requirements.txt", "config/config.example.json"}

\* a README that also prints which generation produced it
generateReadme_stamped(s) ==
    [template |-> "README.md",
     args     |-> <<s.DisplayName, s.Description, s.Name, runs>>,
     files    |-> ReadmeFiles]

generateReadme(s) ==
    [template |-> "README.md",
     args     |-> <<s.DisplayName, s.Description, s.Name>>,
     files    |-> ReadmeFiles]

generateConfigExample(s) ==
    ("connectionConfig" :> <<"host">>) @@ ("accessScanConfig" :> <<"scanDepth">>)

\* a sourceType.json that also lists the authentication methods
generateSourceType_withAuthMethods(s) ==
    ("displayName" :> s.DisplayName)
    @@ ("description" :> s.Description)
    @@ ("icon" :> s.Icon)
    @@ ("scannerImage" :> [prefix |-> "access-analyzer/", name |-> s.Name,
                           suffix |-> "-scanner:latest"])
    @@ ("supportedScanTypes" :> s.SupportedScanTypes)
    @@ ("authMethods" :> s.AuthMethods)
    @@ ("scannerSpecification" :> "scannerSpecification.json")

generateSourceType(s) ==
    ("displayName" :> s.DisplayName)
    @@ ("description" :> s.Description)
    @@ ("icon" :> s.Icon)
    @@ ("scannerImage" :> [prefix |-> "access-analyzer/", name |-> s.Name,
                           suffix |-> "-scanner:latest"])
    @@ ("supportedScanTypes" :> s.SupportedScanTypes)
    @@ ("scannerSpecification" :> "scannerSpecification.json")

generateRequirements(s) == [template |-> "requirements.txt", args |-> <<>>]

generateScannerPython(s) ==
    [template |-> "scanner.py",
     args |-> <<s.DisplayName, s.Description, toPascalCase(s.Name),
                s.DisplayName>>]

generatePackageJson(s) ==
    [template |-> "package.json", args |-> <<s.Name, s.Version, s.Description>>]

generateScannerJavaScript(s) ==
    [template |-> "scanner.js",
     args |-> <<s.DisplayName, s.Description, toPascalCase(s.Name),
                s.DisplayName>>]

generateGoMod(s) == [template |-> "go.mod", args |-> <<s.Name>>]

generateScannerGo(s) ==
    [template |-> "scanner.go",
     args |-> <<s.DisplayName, s.Description>>
              \o [i \in 1..7 |-> toPascalCase(s.Name)]]

generatePomXml(s) == [template |-> "pom.xml", args |-> <<s.Name, s.Version>>]

generateScannerJava(s) ==
    [template |-> "Scanner.java",
     args |-> <<s.DisplayName, s.Description, toPascalCase(s.Name),
                toPascalCase(s.Name)>>]

generateCsProj(s) == [template |-> "Scanner.csproj", args |-> <<s.Name, s.Version>>]

generateScannerCSharp(s) ==
    [template |-> "Scanner.cs",
     args |-> <<s.DisplayName, s.Description, toPascalCase(s.Name),
                toPascalCase(s.Name)>>]

(***************************************************************************)
(* The QueueScanner constructor of the five emitted scanner templates: it  *)
(* reads name and version from scannerSpecification.json and derives the   *)
(* queue and table names with the string operations of its own runtime.    *)
(***************************************************************************)
\* the locale (Java) or culture (.NET) the generated scanner runs under
Locales == {"en", "tr"}

\* the lower-case letter of an ASCII letter, or the character itself
AsciiLowerChar(c) ==
    CASE c = "A" -> "a"
      [] c = "B" -> "b"
      [] c = "D" -> "d"
      [] c = "O" -> "o"
      [] c = "S" -> "s"
      [] c = "X" -> "x"
      [] OTHER   -> c

RECURSIVE ConcatFrom(_, _)
\* the concatenation of the texts of a list, from the i-th on
ConcatFrom(texts, i) ==
    IF i > Len(texts) THEN <<>> ELSE texts[i] \o ConcatFrom(texts, i + 1)

\* Python str.lower and JavaScript String.prototype.toLowerCase use the
\* full Unicode case mapping, whatever the locale
FullLowerChar(c) ==
    IF c = "U+0130" THEN <<"i", "U+0307">> ELSE <<AsciiLowerChar(c)>>

\* Go strings.ToLower maps every rune with unicode.ToLower, one for one
SimpleLowerChar(c) ==
    IF c = "U+0130" THEN <<"i">> ELSE <<AsciiLowerChar(c)>>

\* Java String.toLowerCase() uses the default locale: the full mapping,
\* with the dotted and dotless i of the Turkic languages
JavaLowerChar(c, locale) ==
    IF locale = "tr"
    THEN (IF c = "U+0130" THEN <<"i">>
          ELSE IF c = "I" THEN <<"U+0131">> ELSE <<AsciiLowerChar(c)>>)
    ELSE FullLowerChar(c)

\* .NET string.ToLower() uses the current culture and maps one character
\* to one character
CsLowerChar(c, culture) ==
    IF culture = "tr"
    THEN (IF c = "U+0130" THEN <<"i">>
          ELSE IF c = "I" THEN <<"U+0131">> ELSE <<AsciiLowerChar(c)>>)
    ELSE SimpleLowerChar(c)

FullLower(str) == ConcatFrom([i \in 1..Len(str) |-> FullLowerChar(str[i])], 1)
SimpleLower(str) == ConcatFrom([i \in 1..Len(str) |-> SimpleLowerChar(str[i])], 1)
JavaLower(str, locale) ==
    ConcatFrom([i \in 1..Len(str) |-> JavaLowerChar(str[i], locale)], 1)
CsLower(str, culture) ==
    ConcatFrom([i \in 1..Len(str) |-> CsLowerChar(str[i], culture)], 1)

ScanAccessSuffix == <<"-", "s", "c", "a", "n", "-", "a", "c", "c", "e", "s", "s">>
TestSuffix == <<"-", "t", "e", "s", "t">>
AccessSuffix == <<"_", "a", "c", "c", "e", "s", "s">>

\* scanner.py
PyScanQueueName(name, version) == name \o <<"-">> \o version \o ScanAccessSuffix
PyTestQueueName(name, version) == name \o <<"-">> \o version \o TestSuffix
PyTableName(name, version) ==
    FullLower(name \o <<"_">> \o ReplaceAll(version, ".", "_") \o AccessSuffix)

\* scanner.js
JsScanQueueName(name, version) == name \o <<"-">> \o version \o ScanAccessSuffix
JsTestQueueName(name, version) == name \o <<"-">> \o version \o TestSuffix
JsTableName(name, version) ==
    FullLower(name \o <<"_">> \o ReplaceAll(version, ".", "_") \o AccessSuffix)

\* scanner.go
GoScanQueueName(name, version) == name \o <<"-">> \o version \o ScanAccessSuffix
GoTestQueueName(name, version) == name \o <<"-">> \o version \o TestSuffix
GoTableName(name, version) ==
    SimpleLower(name \o <<"_">> \o ReplaceAll(version, ".", "_") \o AccessSuffix)

\* Scanner.java
JavaScanQueueName(name, version) == name \o <<"-">> \o version \o ScanAccessSuffix
JavaTestQueueName(name, version) == name \o <<"-">> \o version \o TestSuffix
JavaTableName(name, version, locale) ==
    JavaLower(name \o <<"_">> \o ReplaceAll(version, ".", "_") \o AccessSuffix,
              locale)

\* Scanner.cs
CsScanQueueName(name, version) == name \o <<"-">> \o version \o ScanAccessSuffix
CsTestQueueName(name, version) == name \o <<"-">> \o version \o TestSuffix
CsTableName(name, version, culture) ==
    CsLower(name \o <<"_">> \o ReplaceAll(version, ".", "_") \o AccessSuffix,
            culture)

(***************************************************************************)
(* The Dockerfile texts of generateDockerfile, one per branch of its       *)
(* switch: their ENV instructions, in order, and the named sources their   *)
(* COPY instructions take from the build context (no wildcard, not ".",    *)
(* not --from another stage).                                              *)
(***************************************************************************)
\* Dockerfile texts that leave the ClickHouse password out, and whose go
\* text points at a MySQL port
DockerfileEnvLines_withoutPassword(branch) ==
    << <<"RABBITMQ_HOST", "rabbitmq">>,
       <<"RABBITMQ_PORT", "5672">>,
       <<"RABBITMQ_USER", "guest">>,
       <<"RABBITMQ_PASSWORD", "guest">>,
       <<"APP_DB_HOST", "postgres-app">>,
       <<"APP_DB_PORT", IF branch = "go" THEN "3306" ELSE "5432">>,
       <<"APP_DB_NAME", "app">>,
       <<"APP_DB_USER", "appuser">>,
       <<"APP_DB_PASSWORD", "app_password">>,
       <<"COLLECTION_DB_HOST", "clickhouse">>,
       <<"COLLECTION_DB_PORT", "9000">>,
       <<"COLLECTION_DB_NAME", "default">>,
       <<"COLLECTION_DB_USER", "default">> >>

DockerfileEnvLines(branch) ==
    CASE branch = "python" ->
        << <<"RABBITMQ_HOST", "rabbitmq">>,
           <<"RABBITMQ_PORT", "5672">>,
           <<"RABBITMQ_USER", "guest">>,
           <<"RABBITMQ_PASSWORD", "guest">>,
           <<"APP_DB_HOST", "postgres-app">>,
           <<"APP_DB_PORT", "5432">>,
           <<"APP_DB_NAME", "app">>,
           <<"APP_DB_USER", "appuser">>,
           <<"APP_DB_PASSWORD", "app_password">>,
           <<"COLLECTION_DB_HOST", "clickhouse">>,
           <<"COLLECTION_DB_PORT", "9000">>,
           <<"COLLECTION_DB_NAME", "default">>,
           <<"COLLECTION_DB_USER", "default">>,
           <<"COLLECTION_DB_PASSWORD", "">> >>
      [] branch = "javascript" ->
        << <<"RABBITMQ_HOST", "rabbitmq">>,
           <<"RABBITMQ_PORT", "5672">>,
           <<"RABBITMQ_USER", "guest">>,
           <<"RABBITMQ_PASSWORD", "guest">>,
           <<"APP_DB_HOST", "postgres-app">>,
           <<"APP_DB_PORT", "5432">>,
           <<"APP_DB_NAME", "app">>,
           <<"APP_DB_USER", "appuser">>,
           <<"APP_DB_PASSWORD", "app_password">>,
           <<"COLLECTION_DB_HOST", "clickhouse">>,
           <<"COLLECTION_DB_PORT", "9000">>,
           <<"COLLECTION_DB_NAME", "default">>,
           <<"COLLECTION_DB_USER", "default">>,
           <<"COLLECTION_DB_PASSWORD", "">> >>
      [] branch = "go" ->
        << <<"RABBITMQ_HOST", "rabbitmq">>,
           <<"RABBITMQ_PORT", "5672">>,
           <<"RABBITMQ_USER", "guest">>,
           <<"RABBITMQ_PASSWORD", "guest">>,
           <<"APP_DB_HOST", "postgres-app">>,
           <<"APP_DB_PORT", "5432">>,
           <<"APP_DB_NAME", "app">>,
           <<"APP_DB_USER", "appuser">>,
           <<"APP_DB_PASSWORD", "app_password">>,
           <<"COLLECTION_DB_HOST", "clickhouse">>,
           <<"COLLECTION_DB_PORT", "9000">>,
           <<"COLLECTION_DB_NAME", "default">>,
           <<"COLLECTION_DB_USER", "default">>,
           <<"COLLECTION_DB_PASSWORD", "">> >>
      [] branch = "java" ->
        << <<"RABBITMQ_HOST", "rabbitmq">>,
           <<"RABBITMQ_PORT", "5672">>,
           <<"RABBITMQ_USER", "guest">>,
           <<"RABBITMQ_PASSWORD", "guest">>,
           <<"APP_DB_HOST", "postgres-app">>,
           <<"APP_DB_PORT", "5432">>,
           <<"APP_DB_NAME", "app">>,
           <<"APP_DB_USER", "appuser">>,
           <<"APP_DB_PASSWORD", "app_password">>,
           <<"COLLECTION_DB_HOST", "clickhouse">>,
           <<"COLLECTION_DB_PORT", "9000">>,
           <<"COLLECTION_DB_NAME", "default">>,
           <<"COLLECTION_DB_USER", "default">>,
           <<"COLLECTION_DB_PASSWORD", "">> >>
      [] branch = "c#" ->
        << <<"RABBITMQ_HOST", "rabbitmq">>,
           <<"RABBITMQ_PORT", "5672">>,
           <<"RABBITMQ_USER", "guest">>,
           <<"RABBITMQ_PASSWORD", "guest">>,
           <<"APP_DB_HOST", "postgres-app">>,
           <<"APP_DB_PORT", "5432">>,
           <<"APP_DB_NAME", "app">>,
           <<"APP_DB_USER", "appuser">>,
           <<"APP_DB_PASSWORD", "app_password">>,
           <<"COLLECTION_DB_HOST", "clickhouse">>,
           <<"COLLECTION_DB_PORT", "9000">>,
           <<"COLLECTION_DB_NAME", "default">>,
           <<"COLLECTION_DB_USER", "default">>,
           <<"COLLECTION_DB_PASSWORD", "">> >>
      [] branch = "default" ->
        << <<"RABBITMQ_HOST", "rabbitmq">>,
           <<"RABBITMQ_PORT", "5672">>,
           <<"RABBITMQ_USER", "guest">>,
           <<"RABBITMQ_PASSWORD", "guest">>,
           <<"APP_DB_HOST", "postgres-app">>,
           <<"APP_DB_PORT", "5432">>,
           <<"APP_DB_NAME", "app">>,
           <<"APP_DB_USER", "appuser">>,
           <<"APP_DB_PASSWORD", "app_password">>,
           <<"COLLECTION_DB_HOST", "clickhouse">>,
           <<"COLLECTION_DB_PORT", "9000">>,
           <<"COLLECTION_DB_NAME", "default">>,
           <<"COLLECTION_DB_USER", "default">>,
           <<"COLLECTION_DB_PASSWORD", "">> >>

\* what the ENV instructions of a branch leave set: the last value wins
DockerfileEnv(branch) ==
    LET lines == DockerfileEnvLines(branch) IN
    [v \in {lines[i][1] : i \in 1..Len(lines)} |->
        lines[CHOOSE i \in 1..Len(lines) :
                 /\ lines[i][1] = v
                 /\ \A j \in (i + 1)..Len(lines) : lines[j][1] # v][2]]

DockerfileCopies(branch) ==
    CASE branch = "python" -> {"requirements.txt", "scanner.py", "scannerSpecification.json"}
      [] branch = "javascript" -> {"scanner.js", "scannerSpecification.json"}
      [] branch = "go" -> {"go.mod", "go.sum", "scanner.go", "scannerSpecification.json"}
      [] branch = "java" -> {"pom.xml", "src", "scannerSpecification.json"}
      [] branch = "c#" -> {}
      [] branch = "default" -> {"requirements.txt", "scanner.py", "scannerSpecification.json"}


\* the queue names the scanner generated for a language listens on
StubScanQueueName(lang, name, version) ==
    CASE lang = "python"     -> PyScanQueueName(name, version)
      [] lang = "javascript" -> JsScanQueueName(name, version)
      [] lang = "go"         -> GoScanQueueName(name, version)
      [] lang = "java"       -> JavaScanQueueName(name, version)
      [] lang = "c#"         -> CsScanQueueName(name, version)

StubTestQueueName(lang, name, version) ==
    CASE lang = "python"     -> PyTestQueueName(name, version)
      [] lang = "javascript" -> JsTestQueueName(name, version)
      [] lang = "go"         -> GoTestQueueName(name, version)
      [] lang = "java"       -> JavaTestQueueName(name, version)
      [] lang = "c#"         -> CsTestQueueName(name, version)

(***************************************************************************)
(* generateScannerFiles.                                                   *)
(***************************************************************************)
\* an artifact name is prefix ++ fixed; only "%s-source-type.json" has a prefix
File(fixed, renderer, content) ==
    [name |-> [prefix |-> <<>>, fixed |-> fixed], renderer |-> renderer,
     content |-> content]

\* a list literal that holds README.md a second time
CommonFiles_readmeTwice(s) ==
    << File("scannerSpecification.json", "generateScannerSpecification",
            generateScannerSpecification(s)),
       File("Dockerfile", "generateDockerfile", generateDockerfile(s)),
       File("README.md", "generateReadme", generateReadme(s)),
       File("config/config.example.json", "generateConfigExample",
            generateConfigExample(s)),
       [name |-> [prefix |-> s.Name, fixed |-> "-source-type.json"],
        renderer |-> "generateSourceType",
        content |-> generateSourceType(s)],
       File("README.md", "generateReadme", generateReadme(s)) >>

CommonFiles(s) ==
    << File("scannerSpecification.json", "generateScannerSpecification",
            generateScannerSpecification(s)),
       File("Dockerfile", "generateDockerfile", generateDockerfile(s)),
       File("README.md", "generateReadme", generateReadme(s)),
       File("config/config.example.json", "generateConfigExample",
            generateConfigExample(s)),
       [name |-> [prefix |-> s.Name, fixed |-> "-source-type.json"],
        renderer |-> "generateSourceType",
        content |-> generateSourceType(s)] >>

\* a switch without the language cases: every scanner gets python's pair
LanguageFiles_alwaysPython(s) ==
    << File("requirements.txt", "generateRequirements", generateRequirements(s)),
       File("scanner.py", "generateScannerPython", generateScannerPython(s)) >>

LanguageFiles(s) ==
    CASE s.Language = "python" ->
           << File("requirements.txt", "generateRequirements",
                   generateRequirements(s)),
              File("scanner.py", "generateScannerPython",
                   generateScannerPython(s)) >>
      [] s.Language = "javascript" ->
           << File("package.json", "generatePackageJson",
                   generatePackageJson(s)),
              File("scanner.js", "generateScannerJavaScript",
                   generateScannerJavaScript(s)) >>
      [] s.Language = "go" ->
           << File("go.mod", "generateGoMod", generateGoMod(s)),
              File("scanner.go", "generateScannerGo", generateScannerGo(s)) >>
      [] s.Language = "java" ->
           << File("pom.xml", "generatePomXml", generatePomXml(s)),
              File("Scanner.java", "generateScannerJava",
                   generateScannerJava(s)) >>
      [] s.Language = "c#" ->
           << File("Scanner.csproj", "generateCsProj", generateCsProj(s)),
              File("Scanner.cs", "generateScannerCSharp",
                   generateScannerCSharp(s)) >>
      [] OTHER -> << >>

\* a directory or file path: filepath.Join(OutputDir, rel)
Path(base, rel) == [base |-> base, rel |-> rel]

\* one element of a path: its characters followed by a fixed ending
Seg(chars, fixed) == [chars |-> chars, fixed |-> fixed]

\* the elements of a text, split at "/"
TextSegs(str) ==
    LET parts == Split(str, "/") IN [i \in 1..Len(parts) |-> Seg(parts[i], "")]

\* the elements of an artifact name, split at "/"
NameSegs(name) ==
    IF name.fixed = "config/config.example.json"
    THEN <<Seg(<<>>, "config"), Seg(<<>>, "config.example.json")>>
    ELSE LET parts == Split(name.prefix, "/") IN
         [i \in 1..Len(parts) |->
             Seg(parts[i], IF i = Len(parts) THEN name.fixed ELSE "")]

RECURSIVE CleanFrom(_, _, _, _)
\* filepath.Clean: drop empty and "." elements, let ".." cancel the element
\* before it; a ".." with nothing to cancel stays unless the path is rooted
CleanFrom(segs, i, kept, rooted) ==
    IF i > Len(segs) THEN kept
    ELSE IF segs[i] \in {Seg(<<>>, ""), Seg(<<".">>, "")}
         THEN CleanFrom(segs, i + 1, kept, rooted)
    ELSE IF segs[i] = Seg(<<".", ".">>, "")
         THEN IF Len(kept) > 0 /\ kept[Len(kept)] # Seg(<<".", ".">>, "")
              THEN CleanFrom(segs, i + 1, SubSeq(kept, 1, Len(kept) - 1), rooted)
              ELSE IF rooted
                   THEN CleanFrom(segs, i + 1, kept, rooted)
                   ELSE CleanFrom(segs, i + 1, Append(kept, segs[i]), rooted)
    ELSE CleanFrom(segs, i + 1, Append(kept, segs[i]), rooted)

\* the file-system location of filepath.Join(p.base, p.rel): Join drops empty
\* elements, puts "/" between the others and cleans the result
Resolve(p) ==
    LET first == IF p.base # <<>> THEN p.base ELSE p.rel.prefix
        rooted == first # <<>> /\ first[1] = "/"
    IN  [rooted |-> rooted,
         segs   |-> CleanFrom(TextSegs(p.base) \o NameSegs(p.rel), 1, <<>>, rooted)]

\* the directory a location lies in
Parent(loc) ==
    [rooted |-> loc.rooted,
     segs   |-> IF loc.segs = <<>> THEN <<>>
                ELSE SubSeq(loc.segs, 1, Len(loc.segs) - 1)]

\* loc is anc or lies below it
Below(loc, anc) ==
    /\ loc.rooted = anc.rooted
    /\ Len(anc.segs) <= Len(loc.segs)
    /\ SubSeq(loc.segs, 1, Len(anc.segs)) = anc.segs

\* the directories that exist: the working directory and the ones above
\* it, and those os.MkdirAll has created together with their parents
DirExists(loc, created) ==
    \/ \A i \in 1..Len(loc.segs) : loc.segs[i] = Seg(<<".", ".">>, "")
    \/ \E d \in created : Below(Resolve(d), loc)

\* os.MkdirAll(scanner.OutputDir)
MkdirOutput ==
    /\ pc = "mkdirOutput"
    /\ \/ /\ dirs' = dirs \cup {Path(scanner.OutputDir, NoFile)}
          /\ pc' = "mkdirConfig"
          /\ UNCHANGED err
       \/ /\ \E cause \in IOFaults :
                err' = Wrap("failed to create output directory", cause)
          /\ pc' = "returned"
          /\ UNCHANGED dirs
    /\ UNCHANGED <<model, menuRun, simple, defaulted, disk, runs, confirmed, caller, registered, connErr, lookupErr, response, scanner,
                   assigned, asked, steps, validationErr, out, files,
                   rendered, written, exitCode>>

\* a failed MkdirAll of the config directory reported like a failed write
MkdirConfig_asWriteError ==
    /\ pc = "mkdirConfig"
    /\ \/ /\ dirs' = dirs \cup
                     {Path(scanner.OutputDir, [prefix |-> <<>>, fixed |-> "config"])}
          /\ pc' = "render"
          /\ UNCHANGED err
       \/ /\ \E cause \in IOFaults :
                err' = WriteErr([prefix |-> <<>>, fixed |-> "config"], cause)
          /\ pc' = "returned"
          /\ UNCHANGED dirs
    /\ UNCHANGED <<model, menuRun, simple, defaulted, disk, runs, confirmed, caller, registered, connErr, lookupErr, response, scanner,
                   assigned, asked, steps, validationErr, out, files,
                   rendered, written, exitCode>>

\* os.MkdirAll(OutputDir/config)
MkdirConfig ==
    /\ pc = "mkdirConfig"
    /\ \/ /\ dirs' = dirs \cup
                     {Path(scanner.OutputDir, [prefix |-> <<>>, fixed |-> "config"])}
          /\ pc' = "render"
          /\ UNCHANGED err
       \/ /\ \E cause \in IOFaults :
                err' = Wrap("failed to create config directory", cause)
          /\ pc' = "returned"
          /\ UNCHANGED dirs
    /\ UNCHANGED <<model, menuRun, simple, defaulted, disk, runs, confirmed, caller, registered, connErr, lookupErr, response, scanner,
                   assigned, asked, steps, validationErr, out, files,
                   rendered, written, exitCode>>

\* rendering that derives OutputDir from Name again
Render_rederivesOutputDir ==
    /\ pc = "render"
    /\ scanner' = [scanner EXCEPT !.OutputDir = <<".", "/">> \o scanner.Name]
    /\ files' = CommonFiles(scanner) \o LanguageFiles(scanner)
    /\ rendered' = assigned
    /\ pc' = "write"
    /\ UNCHANGED <<model, menuRun, simple, defaulted, disk, runs, confirmed, caller, registered, connErr, lookupErr, response,
                   assigned, asked, steps, validationErr, err, out, dirs,
                   written, exitCode>>

\* the renderers build the artifact list from the record
Render ==
    /\ pc = "render"
    /\ files' = CommonFiles(scanner) \o LanguageFiles(scanner)
    /\ rendered' = assigned
    /\ pc' = "write"
    /\ UNCHANGED <<model, menuRun, simple, defaulted, disk, runs, confirmed, caller, registered, connErr, lookupErr, response, scanner,
                   assigned, asked, steps, validationErr, err, out, dirs,
                   written, exitCode>>

\* a write loop that notes a failed write and goes on to the next artifact
WriteFile_goesOn ==
    /\ pc = "write"
    /\ Len(written) < Len(files)
    /\ LET file == files[Len(written) + 1]
           filePath == Path(scanner.OutputDir, file.name)
       IN
       /\ \/ /\ DirExists(Parent(Resolve(filePath)), dirs)
             /\ disk' = (Resolve(filePath) :> file.content) @@ disk
             /\ UNCHANGED err
          \/ /\ \E cause \in IOFaults : err' = WriteErr(file.name, cause)
             /\ UNCHANGED disk
       /\ written' = Append(written, filePath)
       /\ IF Len(written) + 1 = Len(files)
          THEN /\ out' = Append(out, "Generated")
               /\ pc' = "returned"
          ELSE UNCHANGED <<out, pc>>
    /\ UNCHANGED <<model, menuRun, simple, defaulted, runs, confirmed, caller, registered, connErr, lookupErr, response,
                   scanner, assigned, asked, steps, validationErr, dirs, files,
                   rendered, exitCode>>

\* one iteration of the write loop; after the last artifact the function
\* prints its closing lines and returns nil
WriteFile ==
    /\ pc = "write"
    /\ Len(written) < Len(files)
    /\ LET file == files[Len(written) + 1]
           filePath == Path(scanner.OutputDir, file.name)
       IN
       \/ /\ DirExists(Parent(Resolve(filePath)), dirs)
          /\ written' = Append(written, filePath)
          /\ disk' = (Resolve(filePath) :> file.content) @@ disk
          /\ IF Len(written) + 1 = Len(files)
             THEN /\ out' = Append(out, "Generated")
                  /\ pc' = "returned"
             ELSE UNCHANGED <<out, pc>>
          /\ UNCHANGED err
       \/ /\ \E cause \in IOFaults \cup
                    (IF DirExists(Parent(Resolve(filePath)), dirs)
                     THEN {} ELSE {"no such file or directory"}) :
                err' = WriteErr(file.name, cause)
          /\ pc' = "returned"
          /\ UNCHANGED <<written, out, disk>>
    /\ UNCHANGED <<model, menuRun, simple, defaulted, runs, confirmed, caller, registered, connErr, lookupErr, response, scanner,
                   assigned, asked, steps, validationErr, dirs, files,
                   rendered, exitCode>>

Next ==
    \/ GetAPIClient
    \/ TestConnection
    \/ GetSourceTypes
    \/ AskName
    \/ AskDisplayName
    \/ AskDescription
    \/ AskVersion
    \/ AskIcon
    \/ collectLanguage
    \/ collectScanTypes
    \/ collectAuthMethods
    \/ AskGenerateFiles
    \/ AskOutputDir
    \/ showSummaryAndConfirm
    \/ MkdirOutput
    \/ MkdirConfig
    \/ Render
    \/ WriteFile
    \/ HandleResult

Spec == Init /\ [][Next]_vars

(***************************************************************************)
(* Properties.                                                             *)
(***************************************************************************)
WizardOver == pc \in {"returned", "exited", "scannerMenu"}
Generating == pc \in {"mkdirOutput", "mkdirConfig", "render", "write"}
CallerDone == pc \in {"exited", "scannerMenu"}
StepIndex(step) ==
    CASE step = "BasicInfo" -> 1
      [] step = "Language" -> 2
      [] step = "ScanTypes" -> 3
      [] step = "AuthMethods" -> 4
      [] step = "FileGeneration" -> 5
      [] step = "SummaryConfirm" -> 6
LastAsked == asked[Len(asked)]
CancelMsgs == PromptErrors \cup {"scanner creation cancelled"}
AllFields == {"Name", "DisplayName", "Description", "Version", "Icon",
              "Language", "SupportedScanTypes", "AuthMethods",
              "GenerateFiles", "OutputDir"}

\* C1: the steps started are always an initial segment of BasicInfo,
\* Language, ScanTypes, AuthMethods, FileGeneration, SummaryConfirm (fixed
\* order, none skipped, none twice); prompts are only issued by the step
\* started last; once a step has returned an error no further step has
\* started; and a wizard that got past the confirmation ran all six.
C1_StepsInFixedOrder ==
    /\ Len(steps) <= Len(StepOrder)
    /\ steps = SubSeq(StepOrder, 1, Len(steps))
    /\ \A i \in 1..Len(asked) : StepIndex(StepOf(asked[i])) <= Len(steps)
    /\ \A i \in 1..(Len(asked) - 1) :
          StepIndex(StepOf(asked[i])) <= StepIndex(StepOf(asked[i + 1]))
    /\ (err.msg \in CancelMsgs) => Len(steps) = StepIndex(StepOf(LastAsked))
    /\ (Generating \/ (pc = "returned" /\ err = NilErr)) => steps = StepOrder

C1_Witness ==
    /\ pc = "returned"
    /\ err = NilErr
    /\ steps = StepOrder
    /\ Len(asked) >= 10

\* C2: the name validator accepts a string exactly when it is non-empty,
\* contains '-' and is not an existing TypeName, and a Name that was stored
\* satisfies these three conditions.
C2_ValidatorAcceptsIffKebabAndNew ==
    /\ pc = "name" =>
          \A str \in NameInputs :
              (ValidateName(str, ExistingNames(response)) = "ok")
              <=> (/\ str # <<>>
                   /\ Contains(str, "-")
                   /\ str \notin ExistingNames(response))
    /\ "Name" \in assigned =>
          /\ scanner.Name # <<>>
          /\ Contains(scanner.Name, "-")
          /\ scanner.Name \notin ExistingNames(response)

\* C3: once a prompt has failed, the wizard has returned that error, no
\* further prompt is issued, no further step starts, and no directory or
\* file exists or is ever created.
C3_PromptFailureAborts ==
    [][ /\ (err'.msg \in PromptErrors) =>
              /\ pc' \in {"returned", "exited", "scannerMenu"}
              /\ dirs' = {} /\ files' = <<>> /\ written' = <<>>
        /\ (err.msg \in PromptErrors) =>
              /\ asked' = asked /\ steps' = steps /\ err' = err
              /\ scanner' = scanner ]_vars

C3_Witness ==
    /\ err.msg \in PromptErrors
    /\ CallerDone
    /\ LastAsked = "scanTypes"

\* C4: after a "no" at the confirmation the wizard has returned an error,
\* no prompt is issued again, generateScannerFiles has not run and never
\* runs: no directory, no artifact list, no file, whatever GenerateFiles is.
C4_DeclineWritesNothing ==
    [][ /\ (err'.msg = "scanner creation cancelled") =>
              /\ ~confirmed'
              /\ pc' \in {"returned", "exited", "scannerMenu"}
              /\ asked'[Len(asked')] = "confirm"
              /\ dirs' = {} /\ files' = <<>> /\ written' = <<>>
        /\ (err.msg = "scanner creation cancelled") =>
              /\ asked' = asked /\ steps' = steps /\ err' = err ]_vars

C4_Witness ==
    /\ err.msg = "scanner creation cancelled"
    /\ scanner.GenerateFiles
    /\ CallerDone

\* C5: whenever the wizard ended cancelled (closed input, interrupt or a
\* declined confirmation), the caller has printed the cancellation message
\* and not the generic failure message.
C5_CancelledPrintsCancellation ==
    (CallerDone /\ err.msg \in CancelMsgs) =>
        /\ \E i \in 1..Len(out) : out[i] = "Cancelled"
        /\ \A i \in 1..Len(out) : out[i] # "Failed"

\* C6: every fatal end of the scanner create command (no endpoint, wizard
\* cancelled, directory creation failure, write failure) has printed a
\* message and exits with a non-zero code.
C6_FatalExitsNonZero ==
    (caller = "cmd" /\ pc = "exited"
       /\ (err # NilErr \/ \E i \in 1..Len(out) : out[i] = "Error")) =>
        /\ out # <<>>
        /\ exitCode # 0

C8_GenerateFilesGates ==
    /\ (\E i \in 1..Len(asked) : asked[i] = "outputDir") =>
          ("GenerateFiles" \in assigned /\ scanner.GenerateFiles)
    /\ (\E i \in 1..Len(asked) : asked[i] = "confirm") =>
          (scanner.GenerateFiles <=> \E i \in 1..Len(asked) : asked[i] = "outputDir")
    /\ (Generating \/ dirs # {} \/ files # <<>> \/ written # <<>>) =>
          (confirmed /\ scanner.GenerateFiles)
    /\ (pc = "returned" /\ err = NilErr) =>
          (scanner.GenerateFiles <=>
              (/\ Cardinality(dirs) = 2
               /\ files # <<>>
               /\ Len(written) = Len(files)))
    /\ ("GenerateFiles" \in assigned /\ ~scanner.GenerateFiles) =>
          /\ scanner.OutputDir = <<>>
          /\ "OutputDir" \notin assigned
          /\ dirs = {} /\ files = <<>> /\ written = <<>>

C8_Witness ==
    /\ pc = "returned"
    /\ err = NilErr
    /\ confirmed
    /\ "GenerateFiles" \in assigned
    /\ ~scanner.GenerateFiles

\* C9: a directory, a rendered artifact or a written file exists only after
\* all six steps have run and the confirmation was answered yes, and the
\* artifacts were rendered from a record in which every field was set.
C9_NothingBeforeConfirmation ==
    /\ (Generating \/ dirs # {} \/ files # <<>> \/ written # <<>>) =>
          /\ steps = StepOrder
          /\ LastAsked = "confirm"
          /\ confirmed
          /\ assigned = AllFields
    /\ files # <<>> => rendered = AllFields

C9_Witness ==
    /\ files # <<>>
    /\ written # <<>>
    /\ rendered = AllFields
    /\ pc = "write"

\* the prompt that assigns a field
PromptOf(field) ==
    CASE field = "Name" -> "name"
      [] field = "DisplayName" -> "displayName"
      [] field = "OutputDir" -> "outputDir"

\* C10: once a prompt has stored Name, DisplayName or OutputDir, no step
\* changes the field and its prompt is not issued again; the field only
\* changes in the step of its own prompt.
C10_NameFieldsAssignedOnce ==
    [][ \A f \in {"Name", "DisplayName", "OutputDir"} :
          /\ f \in assigned =>
                /\ scanner'[f] = scanner[f]
                /\ f \in assigned'
                /\ Occurrences(asked', PromptOf(f)) = Occurrences(asked, PromptOf(f))
          /\ scanner'[f] # scanner[f] => pc = PromptOf(f) ]_vars

C10_Witness ==
    /\ pc = "returned"
    /\ err = NilErr
    /\ Len(written) = 7
    /\ scanner.Name # <<>>
    /\ scanner.DisplayName = <<"X">>
    /\ scanner.OutputDir = <<"o">>

(***************************************************************************)
(* generateScannerFiles on its own: it starts from a confirmed record with *)
(* GenerateFiles set, and may be started again on the disk the run before  *)
(* it has left.                                                            *)
(***************************************************************************)
\* how many times the writer is started on the same record
MaxRuns == 2

\* names the validator of step 1 lets through when no name is registered
WriterNames ==
    {n \in { <<"a", "-", "b">>, <<"s", "-", "3">>, <<>>,
             <<".", ".", "/", "a", "-", "b">>,
             <<"x", "/", "a", "-", "b">>,
             <<"U+0130", "-", "a">>,
             <<"a", ".", "b", "-", "d">>,
             <<"A", "-", "b">> } : ValidateName(n, {}) = "ok"}

WriterVersions == { DefaultVersion, <<"2", ".", "1">> }

\* OutputDir is the default "./" + Name or what the user typed
WriterOutputDirs(name) == { InputAnswer(typed, <<".", "/">> \o name) :
                            typed \in OutputDirInputs }

\* AuthMethods is what the authentication prompt stores
WriterAuthMethods == { MultiSelectAnswer(authOptions, authDefault, flipped) :
                       flipped \in AuthMethodInputs }

ConfirmedRecords ==
    { [Name |-> n,
       DisplayName |-> Title(ReplaceAll(n, "-", " ")),
       Description |-> <<"d">>,
       Version |-> v,
       Icon |-> "folder",
       Language |-> l,
       SupportedScanTypes |-> t,
       AuthMethods |-> a,
       GenerateFiles |-> TRUE,
       OutputDir |-> o] :
      n \in WriterNames, v \in WriterVersions, l \in SelectAnswers(languageOptions),
      t \in MultiSelectAnswers(scanTypeOptions), a \in WriterAuthMethods,
      o \in UNION {WriterOutputDirs(m) : m \in WriterNames} }

WriterInit ==
    /\ scanner \in {r \in ConfirmedRecords : r.OutputDir \in WriterOutputDirs(r.Name)}
    /\ caller = "cmd"
    /\ registered \in RegisteredInputs
    /\ pc = "mkdirOutput"
    /\ connErr = "ok"
    /\ lookupErr = "transport"
    /\ response = NilResponse
    /\ assigned = AllFields
    /\ asked = <<"name", "displayName", "description", "version", "icon",
                 "language", "scanTypes", "authMethods", "generateFiles",
                 "outputDir", "confirm">>
    /\ steps = StepOrder
    /\ validationErr = "none"
    /\ confirmed = TRUE
    /\ err = NilErr
    /\ out = <<"Warning">>
    /\ dirs = {}
    /\ files = <<>>
    /\ rendered = {}
    /\ written = <<>>
    /\ exitCode = -1
    /\ defaulted = {}
    /\ model = initialModel(getMainMenuItems)
    /\ menuRun = NoMenuRun
    /\ simple = NoSimpleMenu
    /\ disk = <<>>
    /\ runs = 1

\* the same record is generated again into the same OutputDir
RunAgain ==
    /\ pc = "returned"
    /\ err = NilErr
    /\ runs < MaxRuns
    /\ runs' = runs + 1
    /\ pc' = "mkdirOutput"
    /\ files' = <<>>
    /\ written' = <<>>
    /\ UNCHANGED <<model, menuRun, simple, defaulted, disk, dirs, confirmed, caller, registered, connErr, lookupErr,
                   response, scanner, assigned, asked, steps, validationErr,
                   err, out, rendered, exitCode>>

WriterNext ==
    \/ MkdirOutput
    \/ MkdirConfig
    \/ Render
    \/ WriteFile
    \/ RunAgain

WriterSpec == WriterInit /\ [][WriterNext]_vars

\* the record has reached Completed: the user confirmed the summary
Completed == confirmed

\* the members of a list
Range(seq) == {seq[i] : i \in DOMAIN seq}

\* C11: every record that reaches Completed has a Language among the five
\* languages, an Icon among the eight icons, a non-empty SupportedScanTypes
\* within {access, sensitive_data} and a non-empty AuthMethods within the
\* seven methods.
C11_CompletedRecordWellFormed ==
    Completed =>
        /\ scanner.Language \in Range(languageOptions)
        /\ scanner.Icon \in Range(iconOptions)
        /\ scanner.SupportedScanTypes # <<>>
        /\ Range(scanner.SupportedScanTypes) \subseteq Range(scanTypeOptions)
        /\ scanner.AuthMethods # <<>>
        /\ Range(scanner.AuthMethods) \subseteq Range(authOptions)

\* the pair of artifact names the claim gives for a language
PairOf(lang) ==
    CASE lang = "python"     -> <<"requirements.txt", "scanner.py">>
      [] lang = "javascript" -> <<"package.json", "scanner.js">>
      [] lang = "go"         -> <<"go.mod", "scanner.go">>
      [] lang = "java"       -> <<"pom.xml", "Scanner.java">>
      [] lang = "c#"         -> <<"Scanner.csproj", "Scanner.cs">>

FixedName(fixed) == [prefix |-> <<>>, fixed |-> fixed]

\* the names of the artifact list, in order
FileNames == [i \in 1..Len(files) |-> files[i].name]

\* C12: the artifact list is scannerSpecification.json, Dockerfile,
\* README.md, config/config.example.json and <Name>-source-type.json followed
\* by exactly the pair of the record's language: seven artifacts, none of
\* them from the pair of another language.
C12_ArtifactListPerLanguage ==
    files # <<>> =>
        /\ Len(files) = 7
        /\ FileNames =
             << FixedName("scannerSpecification.json"),
                FixedName("Dockerfile"),
                FixedName("README.md"),
                FixedName("config/config.example.json"),
                [prefix |-> scanner.Name, fixed |-> "-source-type.json"],
                FixedName(PairOf(scanner.Language)[1]),
                FixedName(PairOf(scanner.Language)[2]) >>
        /\ \A other \in Range(languageOptions) \ {scanner.Language} :
             \A i \in 1..Len(files) :
                files[i].name.fixed \notin Range(PairOf(other))

C12_Witness ==
    /\ pc = "write"
    /\ Len(files) = 7
    /\ scanner.Language = "c#"
    /\ files[7].name = FixedName("Scanner.cs")

\* the rendered scannerSpecification.json: the first artifact of the list
SpecDocument == files[1].content

\* C13: the rendered scannerSpecification.json has accessScanConfig and
\* outputSchema.access exactly when access is selected, and
\* sensitiveDataScanConfig and outputSchema.sensitiveData exactly when
\* sensitive_data is selected; name, version and connectionConfig are
\* always there.
C13_SpecificationFollowsScanTypes ==
    files # <<>> =>
        LET S == Range(scanner.SupportedScanTypes)
            doc == SpecDocument
        IN  /\ files[1].name = FixedName("scannerSpecification.json")
            /\ ("accessScanConfig" \in DOMAIN doc) <=> ("access" \in S)
            /\ ("access" \in DOMAIN doc["outputSchema"]) <=> ("access" \in S)
            /\ ("sensitiveDataScanConfig" \in DOMAIN doc) <=> ("sensitive_data" \in S)
            /\ ("sensitiveData" \in DOMAIN doc["outputSchema"])
                 <=> ("sensitive_data" \in S)
            /\ {"name", "version", "connectionConfig"} \subseteq DOMAIN doc

C13_Witness ==
    /\ files # <<>>
    /\ scanner.SupportedScanTypes = <<"sensitive_data">>
    /\ "sensitiveDataScanConfig" \in DOMAIN SpecDocument
    /\ "accessScanConfig" \notin DOMAIN SpecDocument
    /\ DOMAIN SpecDocument["outputSchema"] = {"sensitiveData"}

\* the writer has returned a per-file write error
WriteFailed == err.msg = "failed to write"

\* the artifacts written in this run are the first ones of the list, each
\* at its path and with its content
WrittenIsPrefix ==
    /\ Len(written) <= Len(files)
    /\ \A i \in 1..Len(written) :
          /\ written[i] = Path(scanner.OutputDir, files[i].name)
          /\ Resolve(written[i]) \in DOMAIN disk
          /\ disk[Resolve(written[i])] = files[i].content

\* C14: when the write of the k-th artifact fails the writer returns at
\* once; artifacts 1..k-1 are on disk and stay as they are, nothing is
\* written afterwards, and the error names artifact k and carries the cause.
C14_WriteFailureStopsAtK ==
    /\ [](WriteFailed =>
            /\ pc = "returned"
            /\ Len(written) < Len(files)
            /\ WrittenIsPrefix
            /\ err.file = files[Len(written) + 1].name
            /\ err.cause # NoCause)
    /\ [][WriteFailed => (written' = written /\ disk' = disk /\ err' = err)]_vars

C14_Witness ==
    /\ WriteFailed
    /\ Len(written) = 3
    /\ err.file = FixedName("config/config.example.json")
    /\ Cardinality(DOMAIN disk) = 3

\* the writer has returned a directory-creation error
MkdirFailed ==
    err.msg \in {"failed to create output directory",
                 "failed to create config directory"}

\* every error a failed write of one of the record's artifacts can give
WriteErrors ==
    {WriteErr(f.name, cause) :
        f \in Range(CommonFiles(scanner) \o LanguageFiles(scanner)),
        cause \in IOFaults \cup {"no such file or directory"}}

\* C15: when creating OutputDir or OutputDir/config fails the writer
\* returns a directory-creation error, which differs from every per-file
\* write error, and neither renders nor writes an artifact.
C15_MkdirFailureBeforeAnyWrite ==
    /\ [][(pc \in {"mkdirOutput", "mkdirConfig"} /\ pc' = "returned") =>
             /\ MkdirFailed'
             /\ (pc = "mkdirOutput") =>
                    err'.msg = "failed to create output directory"
             /\ (pc = "mkdirConfig") =>
                    err'.msg = "failed to create config directory"]_vars
    /\ [](MkdirFailed =>
             /\ pc = "returned"
             /\ files = <<>>
             /\ written = <<>>
             /\ err.cause # NoCause
             /\ \A w \in WriteErrors : err.msg # w.msg)
    /\ [][MkdirFailed => (written' = written /\ disk' = disk /\ err' = err)]_vars

C15_Witness ==
    /\ err.msg = "failed to create config directory"
    /\ dirs = {Path(scanner.OutputDir, NoFile)}
    /\ written = <<>>
    /\ pc = "returned"

\* the two directories of the output tree
OutputLoc == Resolve(Path(scanner.OutputDir, NoFile))
ConfigLoc == Resolve(Path(scanner.OutputDir, FixedName("config")))

\* the run has ended without an I/O failure
WriterSucceeded == pc = "returned" /\ err = NilErr /\ files # <<>>

\* C16: OutputDir and OutputDir/config exist before the first write; the
\* artifacts are written one at a time in list order, and a run without
\* I/O failure has written every artifact of the list exactly once.
C16_DirsFirstThenEachOnceInOrder ==
    /\ []((pc = "write" \/ written # <<>>) =>
             /\ DirExists(OutputLoc, dirs)
             /\ DirExists(ConfigLoc, dirs)
             /\ Path(scanner.OutputDir, NoFile) \in dirs
             /\ Path(scanner.OutputDir, FixedName("config")) \in dirs)
    /\ [](WrittenIsPrefix)
    /\ [][written' # written =>
             \/ /\ Len(written) < Len(files)
                /\ written' = Append(written,
                                Path(scanner.OutputDir, files[Len(written) + 1].name))
             \/ written' = <<>> /\ pc' = "mkdirOutput"]_vars
    /\ [](WriterSucceeded =>
             /\ Len(written) = Len(files)
             /\ \A f \in Range(files) :
                   Cardinality({i \in 1..Len(written) :
                       written[i] = Path(scanner.OutputDir, f.name)}) = 1)

C16_Witness ==
    /\ WriterSucceeded
    /\ runs = 1
    /\ Len(written) = 7
    /\ scanner.Language = "java"
    /\ written[4] = Path(scanner.OutputDir, FixedName("config/config.example.json"))

\* the writer has been started again on the disk its first run left
SecondRun == runs >= 2

C18_WritesStayInOutputDir ==
    \A i \in 1..Len(written) :
        Parent(Resolve(written[i])) \in {OutputLoc, ConfigLoc}

\* the rendered README.md: the third artifact of the list
ReadmeDocument == files[3].content

\* C19: every file name the README refers to is the name of an artifact of
\* the list built for the record's language.
C19_ReadmeNamesWrittenArtifacts ==
    files # <<>> =>
        /\ files[3].name = FixedName("README.md")
        /\ \A n \in ReadmeDocument.files :
              \E i \in 1..Len(files) : files[i].name = FixedName(n)

\* C20: the QueueScanner stubs of the five languages derive the same
\* scan-queue name, test-queue name and table name from the name and
\* version of scannerSpecification.json, and the table name is the
\* lower-case of name, "_", the version with every "." replaced by "_",
\* and "_access".
C20_StubsDeriveSameNames ==
    files # <<>> =>
        LET name == SpecDocument["name"]
            version == SpecDocument["version"]
        IN  \A locale \in Locales :
              /\ {JsScanQueueName(name, version), GoScanQueueName(name, version),
                  JavaScanQueueName(name, version), CsScanQueueName(name, version)}
                   = {PyScanQueueName(name, version)}
              /\ {JsTestQueueName(name, version), GoTestQueueName(name, version),
                  JavaTestQueueName(name, version), CsTestQueueName(name, version)}
                   = {PyTestQueueName(name, version)}
              /\ {JsTableName(name, version), GoTableName(name, version),
                  JavaTableName(name, version, locale),
                  CsTableName(name, version, locale)}
                   = {PyTableName(name, version)}
              /\ PyTableName(name, version) =
                   FullLower(name \o <<"_">> \o ReplaceAll(version, ".", "_")
                                  \o <<"_", "a", "c", "c", "e", "s", "s">>)

\* the characters of a scan type
ScanTypeText(t) ==
    CASE t = "access" -> <<"a", "c", "c", "e", "s", "s">>
      [] t = "sensitive_data" ->
           <<"s", "e", "n", "s", "i", "t", "i", "v", "e", "_", "d", "a", "t", "a">>

\* C21: for every selected scan type t the generated scanner derives the
\* scan queue name-version-scan-t, and its test queue is name-version-test,
\* name and version being those of scannerSpecification.json.
C21_ScanQueuePerScanType ==
    files # <<>> =>
        LET name == SpecDocument["name"]
            version == SpecDocument["version"]
        IN  /\ \A t \in Range(scanner.SupportedScanTypes) :
                  StubScanQueueName(scanner.Language, name, version) =
                      name \o <<"-">> \o version \o <<"-", "s", "c", "a", "n", "-">>
                           \o ScanTypeText(t)
            /\ StubTestQueueName(scanner.Language, name, version) =
                  name \o <<"-">> \o version \o <<"-", "t", "e", "s", "t">>

\* a segment with its first letter upper-cased
UpperFirst(word) ==
    IF word = <<>> THEN <<>> ELSE <<ToUpperChar(word[1])>> \o Tail(word)

\* the "-"-separated segments of a name, each with its first letter
\* upper-cased, put together without a separator
PascalOfSegments(name) ==
    LET words == Split(name, "-") IN
    ConcatFrom([i \in 1..Len(words) |-> UpperFirst(words[i])], 1)

\* the scanner implementation of the artifact list: its last artifact
StubDocument == files[Len(files)].content

\* C22: toPascalCase(Name) is the concatenation of the "-"-separated
\* segments of Name, each with its first letter upper-cased, and the
\* scanner type of every language stub is named with it.
C22_PascalCaseOfSegments ==
    files # <<>> =>
        /\ toPascalCase(scanner.Name) = PascalOfSegments(scanner.Name)
        /\ StubDocument.args[3] = PascalOfSegments(scanner.Name)

\* the rendered Dockerfile: the second artifact of the list
DockerfileDocument == files[2].content

\* the environment variables the claim lists
ClaimedEnvNames ==
    {"RABBITMQ_HOST", "RABBITMQ_PORT", "RABBITMQ_USER", "RABBITMQ_PASSWORD",
     "APP_DB_HOST", "APP_DB_PORT", "APP_DB_NAME", "APP_DB_USER",
     "APP_DB_PASSWORD", "COLLECTION_DB_HOST", "COLLECTION_DB_PORT",
     "COLLECTION_DB_NAME", "COLLECTION_DB_USER", "COLLECTION_DB_PASSWORD"}

\* C23: the Dockerfile rendered for a language sets exactly the fourteen
\* RABBITMQ_, APP_DB_ and COLLECTION_DB_ variables, with the values the
\* Dockerfile of every other language gives them; APP_DB_PORT is 5432,
\* COLLECTION_DB_PORT is 9000 and COLLECTION_DB_PASSWORD is empty.
C23_DockerfilesSetSameEnv ==
    files # <<>> =>
        LET env == DockerfileEnv(DockerfileDocument.branch) IN
        /\ files[2].name = FixedName("Dockerfile")
        /\ DockerfileDocument.branch = scanner.Language
        /\ DOMAIN env = ClaimedEnvNames
        /\ \A other \in Range(languageOptions) : DockerfileEnv(other) = env
        /\ env["APP_DB_PORT"] = "5432"
        /\ env["COLLECTION_DB_PORT"] = "9000"
        /\ env["COLLECTION_DB_PASSWORD"] = ""

C23_Witness ==
    /\ files # <<>>
    /\ scanner.Language = "go"
    /\ DockerfileDocument.branch = "go"
    /\ DockerfileEnv("go")["COLLECTION_DB_PASSWORD"] = ""
    /\ Cardinality(DOMAIN DockerfileEnv("go")) = 14

\* the prompts after the name prompt that offer a default
DefaultPrompts ==
    {"displayName", "version", "icon", "language", "scanTypes",
     "authMethods", "generateFiles", "outputDir", "confirm"}

\* a text with "-" turned into a space and every word title-cased
Displayify(name) ==
    LET words == Split(ReplaceAll(name, "-", " "), " ") IN
    ConcatFrom([i \in 1..Len(words) |->
                   (IF i > 1 THEN <<" ">> ELSE <<>>) \o UpperFirst(words[i])], 1)

DigitChars == <<"0", "1", "2", "3", "4", "5", "6", "7", "8", "9">>

RECURSIVE Decimal(_)
Decimal(n) ==
    IF n < 10 THEN <<DigitChars[n + 1]>>
    ELSE Decimal(n \div 10) \o <<DigitChars[(n % 10) + 1]>>

\* a service holding n scanners, named s-1 .. s-n
Fleet(n) == [i \in 1..n |-> <<"s", "-">> \o Decimal(i)]

\* services holding fewer scanners than a page, exactly a page, and more
FleetInputs == RegisteredInputs \cup
               {Fleet(PageSize - 1), Fleet(PageSize), Fleet(PageSize + 1),
                Fleet(PageSize + 2)}

LookupInit ==
    /\ caller \in Callers
    /\ registered \in FleetInputs
    /\ pc = "getAPIClient"
    /\ connErr = "none"
    /\ lookupErr = "none"
    /\ response = NilResponse
    /\ scanner = EmptyScanner
    /\ assigned = {}
    /\ asked = <<>>
    /\ steps = <<>>
    /\ validationErr = "none"
    /\ confirmed = FALSE
    /\ err = NilErr
    /\ out = <<>>
    /\ dirs = {}
    /\ files = <<>>
    /\ rendered = {}
    /\ written = <<>>
    /\ exitCode = -1
    /\ defaulted = {}
    /\ model = initialModel(getMainMenuItems)
    /\ menuRun = NoMenuRun
    /\ simple = NoSimpleMenu
    /\ disk = <<>>
    /\ runs = 1

\* the workflow up to the answer to the name prompt
LookupNext ==
    \/ GetAPIClient
    \/ TestConnection
    \/ GetSourceTypes
    \/ AskName
    \/ HandleResult

LookupSpec == LookupInit /\ [][LookupNext]_vars

\* C25: after a successful lookup the names the uniqueness check of the
\* name prompt compares against contain the TypeName of every scanner the
\* service holds, however many it holds.
C25_KnownNamesHoldEveryRegistered ==
    lookupErr = "ok" =>
        \A i \in 1..Len(registered) :
            registered[i] \in ExistingNames(response)

\* the artifacts generateScannerFiles renders for a record
Artifacts(s) == CommonFiles(s) \o LanguageFiles(s)

\* selections of authentication methods to compare with: what the prompt
\* stores in the runs checked, every method, and none
AuthAlternatives == WriterAuthMethods \cup {authOptions, <<>>}

\* C26: the artifacts rendered for a record are, file by file, those
\* rendered for the record with any other selection of authentication
\* methods and everything else the same; this holds for every language.
C26_AuthMethodsInfluenceNoFile ==
    files # <<>> =>
        /\ \A a \in AuthAlternatives :
               Artifacts([scanner EXCEPT !.AuthMethods = a]) = files
        /\ SpecDocument["connectionConfig"] = <<"host">>

C26_Witness ==
    /\ WriterSucceeded
    /\ scanner.AuthMethods = <<"API Key", "OAuth2">>
    /\ scanner.Language = "java"
    /\ files = Artifacts([scanner EXCEPT !.AuthMethods = authDefault])

\* the "name" value generateScannerSpecification writes for a Name
SpecName(name) == ToUpper(ReplaceAll(name, "-", "_"))

\* C27: the "name" written to scannerSpecification.json for the record's
\* Name is written for no other Name that passes the validation of the
\* name prompt, so two scanners with distinct accepted Names and the same
\* Version derive distinct queue names and table names.
C27_DistinctNamesGiveDistinctSpecNames ==
    files # <<>> =>
        \A n \in WriterNames :
            n # scanner.Name =>
                /\ SpecName(n) # SpecDocument["name"]
                /\ \A lang \in SelectAnswers(languageOptions) :
                      StubScanQueueName(lang, SpecName(n), scanner.Version)
                          # StubScanQueueName(lang, SpecDocument["name"],
                                              scanner.Version)

\* what generateScannerFiles puts into OutputDir: the artifacts named
\* without a prefix, and the directory of config/config.example.json
WrittenEntries ==
    {files[i].name.fixed : i \in {j \in 1..Len(files) : files[j].name.prefix = <<>>}}
    \cup {"config"}

\* C28: every file or directory the generated Dockerfile copies by name
\* from the build context is an artifact written for the record's language.
C28_DockerfileCopiesAreArtifacts ==
    WriterSucceeded =>
        DockerfileCopies(DockerfileDocument.branch) \subseteq WrittenEntries

(***************************************************************************)
(* The interactive menu: runMenu and InteractiveModel.Update.              *)
(***************************************************************************)
MaxMsgs == 4

\* msg.String() of the keys the user may press; "x" stands for any key
\* Update has no case for
Keys == {"ctrl+c", "q", "up", "k", "down", "j", "enter", " ", "x"}

\* the messages the program hands to Update
Msgs == [type : {"KeyMsg"}, key : Keys]
        \cup {[type |-> "WindowSizeMsg", key |-> ""]}

\* a "down" that moves the cursor whatever its position
Update_downUnguarded(m, msg) ==
    IF msg.type = "KeyMsg"
    THEN CASE msg.key \in {"ctrl+c", "q"} -> [model |-> m, cmd |-> "Quit"]
           [] msg.key \in {"up", "k"} ->
                [model |-> IF m.cursor > 0
                           THEN [m EXCEPT !.cursor = m.cursor - 1] ELSE m,
                 cmd |-> "nil"]
           [] msg.key \in {"down", "j"} ->
                [model |-> [m EXCEPT !.cursor = m.cursor + 1], cmd |-> "nil"]
           [] msg.key \in {"enter", " "} ->
                IF m.mode = "menu"
                THEN [model |-> [m EXCEPT !.done = TRUE], cmd |-> "Quit"]
                ELSE [model |-> m, cmd |-> "nil"]
           [] OTHER -> [model |-> m, cmd |-> "nil"]
    ELSE [model |-> m, cmd |-> "nil"]

\* InteractiveModel.Update: the model and the command it returns
Update(m, msg) ==
    IF msg.type = "KeyMsg"
    THEN CASE msg.key \in {"ctrl+c", "q"} -> [model |-> m, cmd |-> "Quit"]
           [] msg.key \in {"up", "k"} ->
                [model |-> IF m.cursor > 0
                           THEN [m EXCEPT !.cursor = m.cursor - 1] ELSE m,
                 cmd |-> "nil"]
           [] msg.key \in {"down", "j"} ->
                [model |-> IF m.cursor < Len(m.choices) - 1
                           THEN [m EXCEPT !.cursor = m.cursor + 1] ELSE m,
                 cmd |-> "nil"]
           [] msg.key \in {"enter", " "} ->
                IF m.mode = "menu"
                THEN [model |-> [m EXCEPT !.done = TRUE], cmd |-> "Quit"]
                ELSE [model |-> m, cmd |-> "nil"]
           [] OTHER -> [model |-> m, cmd |-> "nil"]
    ELSE [model |-> m, cmd |-> "nil"]

WizardIdle ==
    UNCHANGED <<caller, pc, registered, connErr, lookupErr, response, scanner,
                assigned, asked, steps, validationErr, confirmed, err, out,
                dirs, files, rendered, written, exitCode, defaulted, disk,
                runs>>

\* runMenu is called with one of the item lists: the state after
\* initialModel and tea.NewProgram
MenuInit ==
    /\ menuRun \in {[NoMenuRun EXCEPT !.items = items, !.at = "running"] :
                      items \in MenuInputs}
    /\ model = initialModel(menuRun.items)
    /\ simple = NoSimpleMenu
    /\ caller = "menu"
    /\ registered \in RegisteredInputs
    /\ pc = "menu"
    /\ connErr = "none"
    /\ lookupErr = "none"
    /\ response = NilResponse
    /\ scanner = EmptyScanner
    /\ assigned = {}
    /\ asked = <<>>
    /\ steps = <<>>
    /\ validationErr = "none"
    /\ confirmed = FALSE
    /\ err = NilErr
    /\ out = <<>>
    /\ dirs = {}
    /\ files = <<>>
    /\ rendered = {}
    /\ written = <<>>
    /\ exitCode = -1
    /\ defaulted = {}
    /\ disk = <<>>
    /\ runs = 1

\* p.Run hands one message to Update; the command tea.Quit ends the
\* program, which returns the model as it is then
ProgramUpdate ==
    /\ menuRun.at = "running"
    /\ menuRun.msgs < MaxMsgs
    /\ \E msg \in Msgs :
          LET r == Update(model, msg) IN
          /\ model' = r.model
          /\ menuRun' = [menuRun EXCEPT
                            !.at = IF r.cmd = "Quit" THEN "ended" ELSE @,
                            !.key = IF msg.type = "KeyMsg" THEN msg.key ELSE @,
                            !.msgs = @ + 1]
    /\ UNCHANGED simple
    /\ WizardIdle

\* p.Run fails (no terminal): runMenu returns the error
ProgramFails ==
    /\ menuRun.at = "running"
    /\ menuRun.msgs = 0
    /\ menuRun' = [menuRun EXCEPT !.at = "returned", !.err = "TTY"]
    /\ UNCHANGED <<model, simple>>
    /\ WizardIdle

\* runMenu after p.Run has returned the final model
runMenu ==
    /\ menuRun.at = "ended"
    /\ menuRun' = [menuRun EXCEPT
                      !.at = "returned",
                      !.executed =
                          IF model.done /\ model.cursor < Len(menuRun.items)
                          THEN Append(@, menuRun.items[model.cursor + 1])
                          ELSE @]
    /\ UNCHANGED <<model, simple>>
    /\ WizardIdle

MenuNext ==
    \/ ProgramUpdate
    \/ ProgramFails
    \/ runMenu

MenuSpec == MenuInit /\ [][MenuNext]_vars

\* C29: the cursor of a non-empty menu stays within 0 .. len(choices)-1
\* whatever keys are handled; a menu run executes at most one item action,
\* the one at the final cursor position, and only when the menu ended by
\* enter or space (done is true), never when it ended by q or ctrl+c.
C29_CursorInRangeOneActionOnEnter ==
    /\ model.choices # <<>> =>
           (0 <= model.cursor /\ model.cursor <= Len(model.choices) - 1)
    /\ Len(menuRun.executed) <= 1
    /\ menuRun.executed # <<>> =>
           /\ menuRun.at = "returned"
           /\ model.done
           /\ menuRun.key \in {"enter", " "}
           /\ menuRun.executed[1] = menuRun.items[model.cursor + 1]
    /\ (menuRun.at = "returned" /\ menuRun.key \in {"q", "ctrl+c"}) =>
           (menuRun.executed = <<>> /\ ~model.done)
    /\ (menuRun.at = "returned" /\ menuRun.key \in {"enter", " "}) =>
           Len(menuRun.executed) = 1

\* a run of the two-item menu that handled as many messages as the bound
\* allows, the last of them the space key with the cursor on the last item
C29_Witness ==
    /\ menuRun.at = "returned"
    /\ menuRun.items = getAccessAnalyzerMenuItems
    /\ menuRun.msgs = MaxMsgs
    /\ menuRun.key = " "
    /\ model.cursor = Len(model.choices) - 1
    /\ model.done
    /\ menuRun.executed = <<"Back to Main Menu">>

(***************************************************************************)
(* The fallback text menu: runSimpleMenu.                                  *)
(***************************************************************************)
MaxReads == 3

\* what fmt.Scanln(&choice) yields: a number, an error for a line that is
\* not a number, or io.EOF once the input stream is closed
ScanNumbers == -1..(Len(getMainMenuItems) + 1)
ScanResults == [kind : {"number"}, n : ScanNumbers]
               \cup {[kind |-> "syntax"], [kind |-> "EOF"]}

\* the stream stays closed once it is closed
ScanResultsWhen(closed) == IF closed THEN {[kind |-> "EOF"]} ELSE ScanResults

\* one pass of the loop for what Scanln yielded: where the loop is then,
\* what was printed and which item actions were executed
SimpleMenuPass_runsAction(items, r) ==
    IF r.kind # "number"
    THEN [at |-> "loop", out |-> <<"Invalid input">>, executed |-> <<>>]
    ELSE IF r.n < 1 \/ r.n > Len(items)
    THEN [at |-> "loop", out |-> <<"Invalid choice">>, executed |-> <<>>]
    ELSE IF items[r.n] = "Exit"
    THEN [at |-> "returned", out |-> <<"Selected", items[r.n], "Goodbye!">>,
          executed |-> <<>>]
    ELSE [at |-> "loop", out |-> <<"Selected", items[r.n]>>,
          executed |-> <<items[r.n]>>]

SimpleMenuPass(items, r) ==
    IF r.kind # "number"
    THEN [at |-> "loop", out |-> <<"Invalid input">>, executed |-> <<>>]
    ELSE IF r.n < 1 \/ r.n > Len(items)
    THEN [at |-> "loop", out |-> <<"Invalid choice">>, executed |-> <<>>]
    ELSE IF items[r.n] = "Exit"
    THEN [at |-> "returned", out |-> <<"Selected", items[r.n], "Goodbye!">>,
          executed |-> <<>>]
    ELSE [at |-> "loop",
          out |-> <<"Selected", items[r.n], "This would execute", items[r.n]>>,
          executed |-> <<>>]

\* runSimpleMenu has printed its heading and enters the loop
SimpleMenuInit ==
    /\ simple = [NoSimpleMenu EXCEPT !.at = "loop"]
    /\ menuRun = [NoMenuRun EXCEPT !.items = getMainMenuItems,
                                   !.at = "returned", !.err = "TTY"]
    /\ model = initialModel(getMainMenuItems)
    /\ caller = "menu"
    /\ registered \in RegisteredInputs
    /\ pc = "menu"
    /\ connErr = "none"
    /\ lookupErr = "none"
    /\ response = NilResponse
    /\ scanner = EmptyScanner
    /\ assigned = {}
    /\ asked = <<>>
    /\ steps = <<>>
    /\ validationErr = "none"
    /\ confirmed = FALSE
    /\ err = NilErr
    /\ out = <<>>
    /\ dirs = {}
    /\ files = <<>>
    /\ rendered = {}
    /\ written = <<>>
    /\ exitCode = -1
    /\ defaulted = {}
    /\ disk = <<>>
    /\ runs = 1

\* one pass of the loop: the menu is printed, a line is read, and the loop
\* goes on or the function returns
runSimpleMenu ==
    /\ simple.at = "loop"
    /\ simple.reads < MaxReads
    /\ \E r \in ScanResultsWhen(simple.closed) :
          LET pass == SimpleMenuPass(getMainMenuItems, r) IN
          simple' = [at |-> pass.at,
                     closed |-> r.kind = "EOF",
                     last |-> r,
                     out |-> simple.out \o <<"Main Menu">> \o pass.out,
                     executed |-> simple.executed \o pass.executed,
                     reads |-> simple.reads + 1]
    /\ UNCHANGED <<model, menuRun>>
    /\ WizardIdle

SimpleMenuNext ==
    \/ runSimpleMenu

SimpleMenuSpec == SimpleMenuInit /\ [][SimpleMenuNext]_vars

\* the number of the item titled Exit
ExitNumber == IndexOf(getMainMenuItems, "Exit")

\* C30: runSimpleMenu has returned if and only if the line read last was
\* the number of the Exit item; after any other input (a valid choice that
\* is not Exit, a number out of range, a line that is not a number, a
\* closed input stream) the loop is still running; no item Action is ever
\* executed.
C30_ReturnsOnlyOnExit ==
    /\ (simple.at = "returned") <=>
           (simple.reads > 0 /\ simple.last = [kind |-> "number", n |-> ExitNumber])
    /\ (simple.reads > 0 /\ simple.last # [kind |-> "number", n |-> ExitNumber]) =>
           simple.at = "loop"
    /\ simple.executed = <<>>

\* a line that is not a number, then a valid choice that is not Exit, and
\* in the end the number of Exit
C30_Witness ==
    /\ simple.at = "returned"
    /\ simple.reads = MaxReads
    /\ \E k \in 1..Len(simple.out) : simple.out[k] = "Invalid input"
    /\ \E k \in 1..Len(simple.out) : simple.out[k] = "This would execute"
    /\ simple.out[Len(simple.out)] = "Goodbye!"

=============================================================================
